---- MODULE Spec2Model ----
(***************************************************************************)
(* CloudNest restaurant assistant: the dialogue / session state machine   *)
(* of app/rag_engine.py (ask_question, _rule_based_response,              *)
(* _handle_order_flow), its free-text extraction helpers and the billing  *)
(* calculator.                                                            *)
(*                                                                         *)
(* A query is a sequence of chunks: the words of the text, separated by    *)
(* single spaces, and the chunk Blank for leading or trailing whitespace.  *)
(* All words are lower case, so str.lower() leaves them as they are.       *)
(***************************************************************************)
EXTENDS Integers, Sequences, FiniteSets, TLC

VARIABLES
    orders_by_session,          \* session -> pending order, <<>> when the key is absent
    session_context_by_session, \* session -> [mode, stage, slot, address]
    latest_bill_by_session,     \* session -> bill record, NoBill when the key is absent
    restaurant_text,            \* the knowledge text captured at process start
    data_file,                  \* the knowledge file on disk, as it is now
    threads                     \* requests in flight on the worker threads

vars == <<orders_by_session, session_context_by_session, latest_bill_by_session,
          restaurant_text, data_file, threads>>

(***************************************************************************)
(* Bounds of the model.                                                    *)
(***************************************************************************)
MaxQty == 2

Sessions == {"s1"}
Threads == {"t1", "t2"}
BillIds == {"CN-0000000A", "CN-0000000B"}

(***************************************************************************)
(* Keyword and phrase sets.                                                *)
(***************************************************************************)
MENU_KEYWORDS == {"menu", "food", "foods", "item", "items", "dish", "dishes", "price", "prices"}
HOURS_KEYWORDS == {"hour", "hours", "open", "opening", "close", "closing", "timing", "time"}
POLICY_KEYWORDS == {"policy", "policies", "rule", "rules", "outside", "delivery"}
GREETING_KEYWORDS == {"hi", "hello", "hey"}
ORDER_KEYWORDS == {"order", "bill", "total", "buy", "want", "add", "cart", "checkout"}
CONFIRM_KEYWORDS == {"ok", "okay", "yes", "confirm", "proceed", "place"}
CANCEL_KEYWORDS == {"cancel", "stop", "clear", "remove"}
AMBIGUOUS_ALIAS_WORDS == {"veg", "nonveg", "vegetarian", "non-vegetarian", "vegan", "dessert"}
SLOT_HINTS == {"breakfast", "lunch", "dinner", "morning", "afternoon", "evening", "night"}
MIN_ADDRESS_LENGTH == 10

(***************************************************************************)
(* Text: chunks, joining, stripping, tokens.                               *)
(***************************************************************************)
Blank == " "

RECURSIVE Join(_)
Join(ws) ==
    IF ws = <<>> THEN ""
    ELSE IF Len(ws) = 1 THEN ws[1]
    ELSE ws[1] \o " " \o Join(Tail(ws))

\* str.split(): the words of the text
Split(q) == SelectSeq(q, LAMBDA c : c # Blank)

RECURSIVE StripLeft(_)
StripLeft(q) ==
    IF q # <<>> /\ Head(q) = Blank THEN StripLeft(Tail(q)) ELSE q

RECURSIVE StripRight(_)
StripRight(q) ==
    IF q # <<>> /\ q[Len(q)] = Blank THEN StripRight(SubSeq(q, 1, Len(q) - 1)) ELSE q

\* str.strip()
Strip(q) == StripRight(StripLeft(q))

\* the [a-z0-9]+ runs of one word
WordTokens(w) ==
    CASE w = Blank -> {}
      [] w = "7:30" -> {"7", "30"}
      [] w = "dine-in" -> {"dine", "in"}
      [] w = "12,main" -> {"12", "main"}
      [] OTHER -> {w}

\* set(_tokenize(query))
Tokenize(q) == UNION {WordTokens(q[i]) : i \in 1..Len(q)}

(***************************************************************************)
(* Digits inside a word: the number a word ends with (the regex group     *)
(* (\d+) directly before an alias), the number it starts with (the group  *)
(* directly after an alias), and whether it holds a digit at all.         *)
(***************************************************************************)
NoNumber == 0 - 1

TrailingNumber(w) ==
    CASE w = "0" -> 0
      [] w = "1" -> 1
      [] w = "2" -> 2
      [] w = "3" -> 3
      [] w = "7" -> 7
      [] w = "8" -> 8
      [] w = "12" -> 12
      [] w = "7:30" -> 30
      [] OTHER -> NoNumber

LeadingNumber(w) ==
    CASE w = "0" -> 0
      [] w = "1" -> 1
      [] w = "2" -> 2
      [] w = "3" -> 3
      [] w = "7" -> 7
      [] w = "8" -> 8
      [] w = "12" -> 12
      [] w = "7:30" -> 7
      [] w = "8pm" -> 8
      [] w = "12,main" -> 12
      [] OTHER -> NoNumber

HasDigit(w) == LeadingNumber(w) # NoNumber \/ TrailingNumber(w) # NoNumber
HasSeparator(w) == w \in {"dine-in", "12,main"}

(***************************************************************************)
(* _detect_service_mode: substring search for the dine-in phrases first,  *)
(* then the delivery phrases.                                             *)
(***************************************************************************)
\* words that hold "dine-in", "dinein" or "table"
DineInWords == {"dine-in", "dinein", "table", "vegetable"}
\* words that hold "deliver" (every delivery phrase holds it)
DeliveryWords == {"delivery", "deliver"}

HasDineInPhrase(q) ==
    \/ \E i \in 1..Len(q) : q[i] \in DineInWords
    \/ \E i \in 1..(Len(q) - 1) : q[i] \in {"dine", "eat"} /\ q[i + 1] = "in"

HasDeliveryPhrase(q) == \E i \in 1..Len(q) : q[i] \in DeliveryWords

_detect_service_mode(q) ==
    IF HasDineInPhrase(q) THEN "dine_in"
    ELSE IF HasDeliveryPhrase(q) THEN "delivery"
    ELSE ""

(***************************************************************************)
(* _extract_slot: a range closed by am/pm, a time with am/pm, a 24-hour   *)
(* time, a named period; the first that matches, upper-cased or           *)
(* title-cased as the code does.                                          *)
(***************************************************************************)
IsHour(w) == w \in {"0", "1", "2", "3", "7", "8", "12", "7:30"}
IsAmPm(w) == w \in {"am", "pm"}
Upper(w) ==
    CASE w = "am" -> "AM"
      [] w = "pm" -> "PM"
      [] w = "8pm" -> "8PM"
      [] OTHER -> w
Title(w) ==
    CASE w = "dinner" -> "Dinner"
      [] w = "lunch" -> "Lunch"
      [] OTHER -> w

\* \d{1,2}(:\d{2})?\s?(am|pm) starting at chunk i: the text and its length in chunks
TimeAmPmAt(q, i) ==
    IF i <= Len(q) /\ q[i] = "8pm" THEN <<Upper(q[i]), 1>>
    ELSE IF i + 1 <= Len(q) /\ IsHour(q[i]) /\ IsAmPm(q[i + 1])
         THEN <<q[i] \o " " \o Upper(q[i + 1]), 2>>
    ELSE <<"", 0>>

\* slot_range: <time am/pm> (-|to) <time am/pm>
SlotRangeAt(q, i) ==
    LET a == TimeAmPmAt(q, i)
        j == i + a[2]
        b == TimeAmPmAt(q, j + 1)
    IN  IF a[2] > 0 /\ j <= Len(q) /\ q[j] = "to" /\ b[2] > 0
        THEN a[1] \o " - " \o b[1]
        ELSE ""

\* slot_range_suffix: <time> (-|to) <time am/pm>
SlotRangeSuffixAt(q, i) ==
    LET b == TimeAmPmAt(q, i + 2)
    IN  IF i + 1 <= Len(q) /\ IsHour(q[i]) /\ q[i + 1] = "to" /\ b[2] > 0
        THEN q[i] \o " - " \o b[1]
        ELSE ""

TimeAmPmText(q, i) == TimeAmPmAt(q, i)[1]
Time24hAt(q, i) == IF q[i] = "7:30" THEN q[i] ELSE ""
\* a query of this model names at most one period, so the order in which the
\* code walks the set SLOT_HINTS does not matter
HintAt(q, i) == IF q[i] \in SLOT_HINTS THEN Title(q[i]) ELSE ""

\* the text one of the patterns of _extract_slot matches at word i, "" when it does not
PatternAt(pattern, q, i) ==
    CASE pattern = "range" -> SlotRangeAt(q, i)
      [] pattern = "range_suffix" -> SlotRangeSuffixAt(q, i)
      [] pattern = "time_ampm" -> TimeAmPmText(q, i)
      [] pattern = "time_24h" -> Time24hAt(q, i)
      [] OTHER -> HintAt(q, i)

\* the first of two matches that is not empty
OrElse(first, second) == IF first # "" THEN first ELSE second

\* the leftmost match of a pattern, "" when there is none
RECURSIVE FirstMatch(_, _, _)
FirstMatch(pattern, q, i) ==
    IF i > Len(q) THEN ""
    ELSE OrElse(PatternAt(pattern, q, i), FirstMatch(pattern, q, i + 1))

\* the first of the patterns, in the code's order, that matches somewhere
RECURSIVE FirstPattern(_, _)
FirstPattern(patterns, q) ==
    IF patterns = <<>> THEN ""
    ELSE OrElse(FirstMatch(Head(patterns), q, 1), FirstPattern(Tail(patterns), q))

_extract_slot(q) ==
    FirstPattern(<<"range", "range_suffix", "time_ampm", "time_24h", "hint">>, q)

(***************************************************************************)
(* _looks_like_address                                                    *)
(***************************************************************************)
_looks_like_address(query) ==
    LET q == Strip(query)
        word_count == Len(Split(q))
        has_numeric == \E i \in 1..Len(q) : HasDigit(q[i])
        has_separator == \E i \in 1..Len(q) : HasSeparator(q[i])
    IN  IF Len(Join(q)) < MIN_ADDRESS_LENGTH THEN FALSE
        ELSE IF _detect_service_mode(q) # "" THEN FALSE
        ELSE IF Join(q) \in {"confirm", "ok", "yes", "menu", "cancel"} THEN FALSE
        ELSE word_count >= 3 \/ has_numeric \/ has_separator

(***************************************************************************)
(* The knowledge file.  A document is kept as what _extract_menu_items    *)
(* and _section_between read from it: the menu items in file order, and   *)
(* whether the "Opening Hours:" and "Policies:" sections are there.  A    *)
(* menu item carries its name and the words of name.lower().split().      *)
(***************************************************************************)
VegSalad(price) == [name |-> "Veg Salad", words |-> <<"veg", "salad">>, price |-> price]
ChickenCurry(price) == [name |-> "Chicken Curry", words |-> <<"chicken", "curry">>, price |-> price]

\* the menu of the reference scenario
DocFull == [menu |-> <<VegSalad(120), ChickenCurry(250)>>, hours |-> TRUE, policies |-> TRUE]
\* the same file after an edit: one item removed, one repriced
DocEdited == [menu |-> <<VegSalad(138)>>, hours |-> TRUE, policies |-> TRUE]
Docs == {DocFull, DocEdited}

_extract_menu_items(doc) == doc.menu

(***************************************************************************)
(* A Python dict is kept as a sequence of [key, value] pairs in insertion *)
(* order: assigning to a key it has keeps that key's place.               *)
(***************************************************************************)
HasKey(d, k) == \E i \in 1..Len(d) : d[i].key = k
Get(d, k, default) ==
    IF HasKey(d, k) THEN d[CHOOSE i \in 1..Len(d) : d[i].key = k].value ELSE default
Put(d, k, v) ==
    IF HasKey(d, k)
    THEN [i \in 1..Len(d) |-> IF d[i].key = k THEN [key |-> k, value |-> v] ELSE d[i]]
    ELSE Append(d, [key |-> k, value |-> v])

\* the quantities of two aliases added up
Max_Sum(a, b) == a + b

Max(a, b) == IF a >= b THEN a ELSE b

(***************************************************************************)
(* _build_menu_alias_map: the full name, then the first and the last word *)
(* when longer than 3 characters and not an ambiguous category word.      *)
(***************************************************************************)
AliasUsable(word) == word \notin AMBIGUOUS_ALIAS_WORDS /\ Len(word) > 3

AddAliases(aliases, item) ==
    LET words == item.words
        first == words[1]
        last == words[Len(words)]
        a1 == Put(aliases, words, item)
        a2 == IF AliasUsable(first) THEN Put(a1, <<first>>, item) ELSE a1
        a3 == IF AliasUsable(last) THEN Put(a2, <<last>>, item) ELSE a2
    IN  IF words = <<>> THEN a1 ELSE a3

RECURSIVE _build_menu_alias_map(_)
_build_menu_alias_map(menu_items) ==
    IF menu_items = <<>> THEN <<>>
    ELSE AddAliases(_build_menu_alias_map(SubSeq(menu_items, 1, Len(menu_items) - 1)),
                    menu_items[Len(menu_items)])

(***************************************************************************)
(* _parse_order_from_query: per matched alias the number right before it  *)
(* (else right after it, else 1); per item the maximum over its aliases.  *)
(***************************************************************************)
\* \balias\b matches at chunk i
AliasAt(q, alias, i) ==
    /\ i >= 1
    /\ i + Len(alias) - 1 <= Len(q)
    /\ \A k \in 1..Len(alias) : q[i + k - 1] = alias[k]

AliasFound(q, alias) == \E i \in 1..Len(q) : AliasAt(q, alias, i)

\* (\d+)\s*(?:x\s*)?\balias\b with the digits ending chunk i
LeftAt(q, alias, i) ==
    /\ TrailingNumber(q[i]) # NoNumber
    /\ \/ AliasAt(q, alias, i + 1)
       \/ i + 1 <= Len(q) /\ q[i + 1] = "x" /\ AliasAt(q, alias, i + 2)

\* \balias\b\s*(?:x\s*)?(\d+) with the alias at chunk i: the chunk holding the digits
RightDigitsAt(q, alias, i) ==
    LET j == i + Len(alias)
    IN  IF ~AliasAt(q, alias, i) \/ j > Len(q) THEN 0
        ELSE IF LeadingNumber(q[j]) # NoNumber THEN j
        ELSE IF q[j] = "x" /\ j + 1 <= Len(q) /\ LeadingNumber(q[j + 1]) # NoNumber THEN j + 1
        ELSE 0

AliasQuantity(q, alias) ==
    LET lefts == {i \in 1..Len(q) : LeftAt(q, alias, i)}
        rights == {i \in 1..Len(q) : RightDigitsAt(q, alias, i) # 0}
        Least(S) == CHOOSE i \in S : \A j \in S : i <= j
    IN  IF lefts # {} THEN TrailingNumber(q[Least(lefts)])
        ELSE IF rights # {} THEN LeadingNumber(q[RightDigitsAt(q, alias, Least(rights))])
        ELSE 1

RECURSIVE ParseAliases(_, _, _)
ParseAliases(q, alias_map, n) ==
    IF n = 0 THEN <<>>
    ELSE LET order == ParseAliases(q, alias_map, n - 1)
             alias == alias_map[n].key
             item == alias_map[n].value
         IN  IF ~AliasFound(q, alias) THEN order
             ELSE Put(order, item.name, Max(Get(order, item.name, 0), AliasQuantity(q, alias)))

_parse_order_from_query(q, alias_map) == ParseAliases(q, alias_map, Len(alias_map))

(***************************************************************************)
(* Session records.  The address is kept as the chunks of the text it was *)
(* given as, <<>> for the empty string.                                   *)
(***************************************************************************)
NoAddress == <<>>

_default_session_context ==
    [mode |-> "", stage |-> "choose_mode", slot |-> "", address |-> NoAddress]

\* latest_bill_by_session.get(session_id) of a session that has no bill: None
NoBill == [bill_id |-> "None"]

_mode_label(mode) ==
    IF mode = "dine_in" THEN "Dine-In"
    ELSE IF mode = "delivery" THEN "Online Delivery"
    ELSE ""

(***************************************************************************)
(* _split_address_lines: comma-separated parts when there are two or      *)
(* more, else two halves of a text of eight words or more, else the text. *)
(* (No address of this model holds a newline.)                            *)
(***************************************************************************)
\* the pieces of one word around its commas
CommaPieces(w) == IF w = "12,main" THEN <<"12", "main">> ELSE <<w>>

\* the words of each comma-separated part, in order
RECURSIVE CommaParts(_)
CommaParts(words) ==
    IF words = <<>> THEN << <<>> >>
    ELSE LET rest == CommaParts(Tail(words))
             pieces == CommaPieces(Head(words))
         IN  IF Len(pieces) = 1
             THEN << <<pieces[1]>> \o rest[1] >> \o Tail(rest)
             ELSE << <<pieces[1]>>, <<pieces[2]>> \o rest[1] >> \o Tail(rest)

_split_address_lines(address) ==
    LET words == Split(Strip(address))
        parts == SelectSeq(CommaParts(words), LAMBDA part : part # <<>>)
        midpoint == Len(words) \div 2
    IN  IF words = <<>> THEN <<>>
        ELSE IF Len(parts) >= 2 THEN [i \in 1..Len(parts) |-> Join(parts[i])]
        ELSE IF Len(words) >= 8
             THEN <<Join(SubSeq(words, 1, midpoint)), Join(SubSeq(words, midpoint + 1, Len(words)))>>
        ELSE <<Join(words)>>

(***************************************************************************)
(* Pricing an order against the menu.  menu_by_name[item_name] raises     *)
(* KeyError for a pending item the menu read for this request lacks.      *)
(***************************************************************************)
InMenu(menu_items, name) == \E i \in 1..Len(menu_items) : menu_items[i].name = name

\* menu_by_name[name].price: of two items of one name the later one is kept
PriceOf(menu_items, name) ==
    LET last == CHOOSE i \in 1..Len(menu_items) :
                    /\ menu_items[i].name = name
                    /\ \A j \in (i + 1)..Len(menu_items) : menu_items[j].name # name
    IN  menu_items[last].price

OrderKnown(order, menu_items) == \A i \in 1..Len(order) : InMenu(menu_items, order[i].key)

LineTotal(menu_items, entry) == PriceOf(menu_items, entry.key) * entry.value

RECURSIVE Subtotal(_, _)
Subtotal(order, menu_items) ==
    IF order = <<>> THEN 0
    ELSE LineTotal(menu_items, Head(order)) + Subtotal(Tail(order), menu_items)

\* round(subtotal * GST_RATE): Python rounds a tie to the even neighbour, and
\* for every subtotal up to 200000 the float product rounds as the exact one does
GST_PERCENT == 5

RoundHalfEven(n, d) ==
    LET q == n \div d
        r == n % d
    IN  IF 2 * r < d THEN q
        ELSE IF 2 * r > d THEN q + 1
        ELSE IF q % 2 = 0 THEN q ELSE q + 1

\* the tax cut off instead of rounded: int(subtotal * GST_RATE)
Gst_Truncated(subtotal) == (subtotal * GST_PERCENT) \div 100

Gst(subtotal) == RoundHalfEven(subtotal * GST_PERCENT, 100)

ItemRow(menu_items, entry) ==
    [name |-> entry.key,
     quantity |-> entry.value,
     unit_price |-> PriceOf(menu_items, entry.key),
     line_total |-> LineTotal(menu_items, entry)]

\* bill_data of _generate_bill (issued_at, the wall-clock time, is left out);
\* bill_id is the random identifier drawn for it
_generate_bill(order, menu_items, context, bill_id) ==
    LET subtotal == Subtotal(order, menu_items)
        gst == Gst(subtotal)
    IN  [bill_id |-> bill_id,
         items |-> [i \in 1..Len(order) |-> ItemRow(menu_items, order[i])],
         subtotal |-> subtotal,
         gst |-> gst,
         total |-> subtotal + gst,
         mode |-> context.mode,
         slot |-> context.slot,
         address |-> Join(context.address),
         address_lines |-> _split_address_lines(context.address)]

(***************************************************************************)
(* Responses.  A request that raises returns none: it is recorded as the  *)
(* exception, kind = "KeyError".                                          *)
(***************************************************************************)
_new_response(answer, kind, order_pending, total, bill_id, context) ==
    [answer |-> answer,
     kind |-> kind,
     order_pending |-> order_pending,
     total |-> total,
     bill_id |-> bill_id,
     service_mode |-> context.mode,
     service_stage |-> context.stage,
     service_slot |-> context.slot]

Message(answer, context) == _new_response(answer, "message", FALSE, 0, "", context)

KeyErrorRaised ==
    [answer |-> "", kind |-> "KeyError", order_pending |-> FALSE, total |-> 0,
     bill_id |-> "", service_mode |-> "", service_stage |-> "", service_slot |-> ""]

Raised(resp) == resp.kind = "KeyError"

\* what a step leaves of one session, and what it answers
Outcome(order, context, bill, resp) ==
    [order |-> order, context |-> context, bill |-> bill, resp |-> resp]

\* the summary response of _order_summary, or its KeyError
SummaryResponse(order, menu_items, context, suffix) ==
    IF OrderKnown(order, menu_items)
    THEN _new_response("Pending Order:" \o suffix,
                       IF suffix = "" THEN "pending_order" ELSE "address_required",
                       TRUE, Subtotal(order, menu_items), "", context)
    ELSE KeyErrorRaised

(***************************************************************************)
(* _handle_order_flow.  S is the session as the call finds it (order,     *)
(* context, bill), pending the copy of its order taken at line 506.       *)
(***************************************************************************)
\* MergeOrder assigning the parsed quantity instead of adding it
MergeOrder_Overwrites(pending, parsed) ==
    [i \in 1..Len(pending) |->
        IF HasKey(parsed, pending[i].key)
        THEN [key |-> pending[i].key, value |-> Get(parsed, pending[i].key, 0)]
        ELSE pending[i]]
    \o SelectSeq(parsed, LAMBDA entry : ~HasKey(pending, entry.key))

\* pending[item_name] = pending.get(item_name, 0) + qty, for each parsed item
RECURSIVE MergeOrder(_, _)
MergeOrder(pending, parsed) ==
    IF parsed = <<>> THEN pending
    ELSE MergeOrder(Put(pending, Head(parsed).key,
                        Get(pending, Head(parsed).key, 0) + Head(parsed).value),
                    Tail(parsed))

\* Finalize without the reset of the context (lines 552, 677)
Finalize_NoReset(pending, S, menu_items, context, bill_id) ==
    IF ~OrderKnown(pending, menu_items)
    THEN Outcome(S.order, context, S.bill, KeyErrorRaised)
    ELSE LET bill_data == _generate_bill(pending, menu_items, context, bill_id)
         IN  Outcome(<<>>, context, bill_data,
                     _new_response("Final Bill:", "bill", FALSE, bill_data.total,
                                   bill_data.bill_id, context))

\* lines 549-559, 674-684: bill the order, drop it, store the bill, reset the context
Finalize(pending, S, menu_items, context, bill_id) ==
    IF ~OrderKnown(pending, menu_items)
    THEN Outcome(S.order, context, S.bill, KeyErrorRaised)
    ELSE LET bill_data == _generate_bill(pending, menu_items, context, bill_id)
         IN  Outcome(<<>>, _default_session_context, bill_data,
                     _new_response("Final Bill:", "bill", FALSE, bill_data.total,
                                   bill_data.bill_id, _default_session_context))

\* CancelFlow without the test of line 509: it cancels whether or not an order is pending
CancelFlow_NoPendingTest(pending, S) ==
    LET context == S.context
        reverted == IF context.mode = "delivery" /\ context.stage = "await_address"
                    THEN [context EXCEPT !.stage = "ordering"]
                    ELSE context
    IN  Outcome(<<>>, reverted, S.bill,
                _new_response("Pending order cancelled.", "order_cancelled",
                              FALSE, 0, "", reverted))

\* CancelFlow that also forgets the session's latest bill
CancelFlow_DropsBill(pending, S) ==
    LET context == S.context
        reverted == IF context.mode = "delivery" /\ context.stage = "await_address"
                    THEN [context EXCEPT !.stage = "ordering"]
                    ELSE context
    IN  IF pending # <<>>
        THEN Outcome(<<>>, reverted, NoBill,
                     _new_response("Pending order cancelled.", "order_cancelled",
                                   FALSE, 0, "", reverted))
        ELSE Outcome(S.order, context, S.bill,
                     Message("No pending order to cancel.", context))

\* CancelFlow answering that the order is cancelled and keeping it
CancelFlow_KeepsOrder(pending, S) ==
    LET context == S.context
        reverted == IF context.mode = "delivery" /\ context.stage = "await_address"
                    THEN [context EXCEPT !.stage = "ordering"]
                    ELSE context
    IN  IF pending # <<>>
        THEN Outcome(S.order, reverted, S.bill,
                     _new_response("Pending order cancelled.", "order_cancelled",
                                   FALSE, 0, "", reverted))
        ELSE Outcome(S.order, context, S.bill,
                     Message("No pending order to cancel.", context))

\* lines 508-514
CancelFlow(pending, S) ==
    LET context == S.context
        reverted == IF context.mode = "delivery" /\ context.stage = "await_address"
                    THEN [context EXCEPT !.stage = "ordering"]
                    ELSE context
    IN  IF pending # <<>>
        THEN Outcome(<<>>, reverted, S.bill,
                     _new_response("Pending order cancelled.", "order_cancelled",
                                   FALSE, 0, "", reverted))
        ELSE Outcome(S.order, context, S.bill,
                     Message("No pending order to cancel.", context))

\* ConfirmFlow without the address check of lines 538-547
ConfirmFlow_NoAddressCheck(pending, S, menu_items, bill_id) ==
    IF pending = <<>>
    THEN Outcome(S.order, S.context, S.bill,
                 Message("No pending order found. Add items first, then type confirm.",
                         S.context))
    ELSE Finalize(pending, S, menu_items, S.context, bill_id)

\* lines 516-559
ConfirmFlow(pending, S, menu_items, bill_id) ==
    LET context == S.context
        to_mode == [context EXCEPT !.stage = "choose_mode"]
        to_slot == [context EXCEPT !.stage = "await_slot"]
        to_address == [context EXCEPT !.stage = "await_address"]
    IN  IF pending = <<>>
        THEN Outcome(S.order, context, S.bill,
                     Message("No pending order found. Add items first, then type confirm.",
                             context))
        ELSE IF context.mode = ""
        THEN Outcome(S.order, to_mode, S.bill,
                     _new_response("Before placing order, please tell me: Dine-In or Online Delivery?",
                                   "mode_required", TRUE, 0, "", to_mode))
        ELSE IF context.mode = "dine_in" /\ context.slot = ""
        THEN Outcome(S.order, to_slot, S.bill,
                     _new_response("Please share your preferred dine-in slot (example: 7:30 PM, Dinner, 8 PM).",
                                   "slot_required", TRUE, 0, "", to_slot))
        ELSE IF context.mode = "delivery" /\ context.address = NoAddress
        THEN Outcome(S.order, to_address, S.bill,
                     SummaryResponse(pending, menu_items, to_address,
                                     " Please share complete delivery address to generate final bill."))
        ELSE Finalize(pending, S, menu_items, context, bill_id)

\* ItemFlow dropping the pending order when the query orders nothing and asks nothing
ItemFlow_DropsOrder(query, tokens, pending, S, menu_items) ==
    LET context == S.context
        parsed == _parse_order_from_query(query, _build_menu_alias_map(menu_items))
        to_mode == [context EXCEPT !.stage = "choose_mode"]
        to_slot == [context EXCEPT !.stage = "await_slot"]
        ordering == [context EXCEPT !.stage = "ordering"]
        stored == IF "add" \in tokens /\ pending # <<>>
                  THEN MergeOrder(pending, parsed)
                  ELSE parsed
    IN  IF parsed = <<>>
        THEN IF tokens \cap ORDER_KEYWORDS # {} /\ pending # <<>>
             THEN Outcome(S.order, context, S.bill,
                          SummaryResponse(pending, menu_items, context, ""))
             ELSE IF tokens \cap ORDER_KEYWORDS # {}
             THEN Outcome(S.order, context, S.bill,
                          Message("Add items with quantity, for example: 2 Margherita Pizza and 1 Veg Salad.",
                                  context))
             ELSE Outcome(<<>>, context, S.bill, Message("", context))
        ELSE IF context.mode = ""
        THEN Outcome(S.order, to_mode, S.bill,
                     _new_response("Before adding items, tell me your order type: Dine-In or Online Delivery?",
                                   "mode_required", FALSE, 0, "", to_mode))
        ELSE IF context.mode = "dine_in" /\ context.slot = ""
        THEN Outcome(S.order, to_slot, S.bill,
                     _new_response("Please confirm your dine-in slot first (example: 7:30 PM or Dinner).",
                                   "slot_required", FALSE, 0, "", to_slot))
        ELSE Outcome(stored, ordering, S.bill,
                     SummaryResponse(stored, menu_items, ordering, ""))

\* lines 561-602
ItemFlow(query, tokens, pending, S, menu_items) ==
    LET context == S.context
        parsed == _parse_order_from_query(query, _build_menu_alias_map(menu_items))
        to_mode == [context EXCEPT !.stage = "choose_mode"]
        to_slot == [context EXCEPT !.stage = "await_slot"]
        ordering == [context EXCEPT !.stage = "ordering"]
        stored == IF "add" \in tokens /\ pending # <<>>
                  THEN MergeOrder(pending, parsed)
                  ELSE parsed
    IN  IF parsed = <<>>
        THEN IF tokens \cap ORDER_KEYWORDS # {} /\ pending # <<>>
             THEN Outcome(S.order, context, S.bill,
                          SummaryResponse(pending, menu_items, context, ""))
             ELSE IF tokens \cap ORDER_KEYWORDS # {}
             THEN Outcome(S.order, context, S.bill,
                          Message("Add items with quantity, for example: 2 Margherita Pizza and 1 Veg Salad.",
                                  context))
             ELSE Outcome(S.order, context, S.bill, Message("", context))
        ELSE IF context.mode = ""
        THEN Outcome(S.order, to_mode, S.bill,
                     _new_response("Before adding items, tell me your order type: Dine-In or Online Delivery?",
                                   "mode_required", FALSE, 0, "", to_mode))
        ELSE IF context.mode = "dine_in" /\ context.slot = ""
        THEN Outcome(S.order, to_slot, S.bill,
                     _new_response("Please confirm your dine-in slot first (example: 7:30 PM or Dinner).",
                                   "slot_required", FALSE, 0, "", to_slot))
        ELSE Outcome(stored, ordering, S.bill,
                     SummaryResponse(stored, menu_items, ordering, ""))

_handle_order_flow(query, pending, S, menu_items, bill_id) ==
    LET tokens == Tokenize(query)
    IN  IF tokens \cap CANCEL_KEYWORDS # {} THEN CancelFlow(pending, S)
        ELSE IF tokens \cap CONFIRM_KEYWORDS # {} THEN ConfirmFlow(pending, S, menu_items, bill_id)
        ELSE ItemFlow(query, tokens, pending, S, menu_items)

(***************************************************************************)
(* _rule_based_response, in the code's order: service mode, await_slot,   *)
(* dine-in slot update, await_address, no mode yet, greeting, the order   *)
(* flow, the static routes.                                               *)
(***************************************************************************)
\* the keywords of line 695 without GREETING_KEYWORDS
NoModeKeywords_WithoutGreeting ==
    ORDER_KEYWORDS \cup MENU_KEYWORDS \cup CONFIRM_KEYWORDS \cup CANCEL_KEYWORDS

\* the keywords of line 695 without MENU_KEYWORDS
NoModeKeywords_WithoutMenu ==
    GREETING_KEYWORDS \cup ORDER_KEYWORDS \cup CONFIRM_KEYWORDS \cup CANCEL_KEYWORDS

NoModeKeywords ==
    GREETING_KEYWORDS \cup ORDER_KEYWORDS \cup MENU_KEYWORDS \cup CONFIRM_KEYWORDS
        \cup CANCEL_KEYWORDS

\* SelectMode with the delivery branch leaving the slot as it was
SelectMode_KeepsSlot(service_mode, S) ==
    LET context == S.context
        order == IF S.order # <<>> /\ service_mode # context.mode THEN <<>> ELSE S.order
        dine_in == [context EXCEPT !.mode = "dine_in", !.stage = "await_slot",
                                   !.address = NoAddress]
        delivery == [context EXCEPT !.mode = "delivery", !.stage = "ordering"]
    IN  IF service_mode = "dine_in"
        THEN Outcome(order, dine_in, S.bill,
                     _new_response("Dine-In selected.", "mode_selected", FALSE, 0, "", dine_in))
        ELSE Outcome(order, delivery, S.bill,
                     _new_response("Online Delivery selected.", "mode_selected", FALSE, 0, "",
                                   delivery))

\* SelectMode with the dine-in branch leaving the stage as it was
SelectMode_KeepsStage(service_mode, S) ==
    LET context == S.context
        order == IF S.order # <<>> /\ service_mode # context.mode THEN <<>> ELSE S.order
        dine_in == [context EXCEPT !.mode = "dine_in", !.address = NoAddress]
        delivery == [context EXCEPT !.mode = "delivery", !.stage = "ordering", !.slot = ""]
    IN  IF service_mode = "dine_in"
        THEN Outcome(order, dine_in, S.bill,
                     _new_response("Dine-In selected.", "mode_selected", FALSE, 0, "", dine_in))
        ELSE Outcome(order, delivery, S.bill,
                     _new_response("Online Delivery selected.", "mode_selected", FALSE, 0, "",
                                   delivery))

\* SelectMode without the check of lines 612-613: the pending order is kept
SelectMode_KeepsOrder(service_mode, S) ==
    LET context == S.context
        dine_in == [context EXCEPT !.mode = "dine_in", !.stage = "await_slot",
                                   !.address = NoAddress]
        delivery == [context EXCEPT !.mode = "delivery", !.stage = "ordering", !.slot = ""]
    IN  IF service_mode = "dine_in"
        THEN Outcome(S.order, dine_in, S.bill,
                     _new_response("Dine-In selected.", "mode_selected", FALSE, 0, "", dine_in))
        ELSE Outcome(S.order, delivery, S.bill,
                     _new_response("Online Delivery selected.", "mode_selected", FALSE, 0, "",
                                   delivery))

\* SelectMode forgetting the slot when dine-in is selected
SelectMode_ClearsSlot(service_mode, S) ==
    LET context == S.context
        order == IF S.order # <<>> /\ service_mode # context.mode THEN <<>> ELSE S.order
        dine_in == [context EXCEPT !.mode = "dine_in", !.stage = "await_slot",
                                   !.address = NoAddress, !.slot = ""]
        delivery == [context EXCEPT !.mode = "delivery", !.stage = "ordering", !.slot = ""]
    IN  IF service_mode = "dine_in"
        THEN Outcome(order, dine_in, S.bill,
                     _new_response("Dine-In selected. Please share your preferred time slot (example: 7:30 PM, 8 PM, Dinner).",
                                   "mode_selected", FALSE, 0, "", dine_in))
        ELSE Outcome(order, delivery, S.bill,
                     _new_response("Online Delivery selected. Now choose Veg/Non-Veg, add items, and confirm. I will ask delivery address at the end.",
                                   "mode_selected", FALSE, 0, "", delivery))

\* SelectMode keeping the address when dine-in is selected
SelectMode_KeepsAddress(service_mode, S) ==
    LET context == S.context
        order == IF S.order # <<>> /\ service_mode # context.mode THEN <<>> ELSE S.order
        dine_in == [context EXCEPT !.mode = "dine_in", !.stage = "await_slot"]
        delivery == [context EXCEPT !.mode = "delivery", !.stage = "ordering", !.slot = ""]
    IN  IF service_mode = "dine_in"
        THEN Outcome(order, dine_in, S.bill,
                     _new_response("Dine-In selected. Please share your preferred time slot (example: 7:30 PM, 8 PM, Dinner).",
                                   "mode_selected", FALSE, 0, "", dine_in))
        ELSE Outcome(order, delivery, S.bill,
                     _new_response("Online Delivery selected. Now choose Veg/Non-Veg, add items, and confirm. I will ask delivery address at the end.",
                                   "mode_selected", FALSE, 0, "", delivery))

\* lines 610-633
SelectMode(service_mode, S) ==
    LET context == S.context
        order == IF S.order # <<>> /\ service_mode # context.mode THEN <<>> ELSE S.order
        dine_in == [context EXCEPT !.mode = "dine_in", !.stage = "await_slot",
                                   !.address = NoAddress]
        delivery == [context EXCEPT !.mode = "delivery", !.stage = "ordering", !.slot = ""]
    IN  IF service_mode = "dine_in"
        THEN Outcome(order, dine_in, S.bill,
                     _new_response("Dine-In selected. Please share your preferred time slot (example: 7:30 PM, 8 PM, Dinner).",
                                   "mode_selected", FALSE, 0, "", dine_in))
        ELSE Outcome(order, delivery, S.bill,
                     _new_response("Online Delivery selected. Now choose Veg/Non-Veg, add items, and confirm. I will ask delivery address at the end.",
                                   "mode_selected", FALSE, 0, "", delivery))

\* AwaitSlot whose re-prompt forgets the slot given before
AwaitSlot_ResetsSlot(slot, S) ==
    IF slot # ""
    THEN Outcome(S.order, [S.context EXCEPT !.slot = slot, !.stage = "ordering"], S.bill,
                 _new_response("Dine-In slot confirmed: " \o slot, "slot_confirmed", FALSE, 0, "",
                               [S.context EXCEPT !.slot = slot, !.stage = "ordering"]))
    ELSE Outcome(S.order, [S.context EXCEPT !.slot = ""], S.bill,
                 _new_response("Please share a valid time slot (example: 7:30 PM, 8 PM, Dinner).",
                               "slot_required", FALSE, 0, "", [S.context EXCEPT !.slot = ""]))

\* AwaitSlot recording the slot and staying in await_slot
AwaitSlot_KeepsStage(slot, S) ==
    IF slot # ""
    THEN Outcome(S.order, [S.context EXCEPT !.slot = slot], S.bill,
                 _new_response("Dine-In slot confirmed: " \o slot, "slot_confirmed", FALSE, 0, "",
                               [S.context EXCEPT !.slot = slot]))
    ELSE Outcome(S.order, S.context, S.bill,
                 _new_response("Please share a valid time slot (example: 7:30 PM, 8 PM, Dinner).",
                               "slot_required", FALSE, 0, "", S.context))

\* AwaitSlot without the test of line 637: whatever was extracted is recorded
AwaitSlot_NoSlotTest(slot, S) ==
    LET confirmed == [S.context EXCEPT !.slot = slot, !.stage = "ordering"]
    IN  Outcome(S.order, confirmed, S.bill,
                _new_response("Dine-In slot confirmed: " \o slot,
                              "slot_confirmed", FALSE, 0, "", confirmed))

\* lines 635-649, slot being _extract_slot(query) of line 636
AwaitSlot(slot, S) ==
    LET context == S.context
        confirmed == [context EXCEPT !.slot = slot, !.stage = "ordering"]
    IN  IF slot # ""
        THEN Outcome(S.order, confirmed, S.bill,
                     _new_response("Dine-In slot confirmed: " \o slot
                                       \o ". Now choose Veg/Non-Veg and add items from menu.",
                                   "slot_confirmed", FALSE, 0, "", confirmed))
        ELSE Outcome(S.order, context, S.bill,
                     _new_response("Please share a valid time slot (example: 7:30 PM, 8 PM, Dinner).",
                                   "slot_required", FALSE, 0, "", context))

\* UpdateSlot going back to stage "await_slot"
UpdateSlot_ChangesStage(slot, S) ==
    LET updated == [S.context EXCEPT !.slot = slot, !.stage = "await_slot"]
    IN  Outcome(S.order, updated, S.bill,
                _new_response("Dine-In slot updated: " \o slot
                                  \o ". You can continue ordering.",
                              "slot_confirmed", FALSE, 0, "", updated))

\* lines 651-659, slot being _extract_slot(query) of line 652
UpdateSlot(slot, S) ==
    LET updated == [S.context EXCEPT !.slot = slot]
    IN  Outcome(S.order, updated, S.bill,
                _new_response("Dine-In slot updated: " \o slot
                                  \o ". You can continue ordering.",
                              "slot_confirmed", FALSE, 0, "", updated))

\* AwaitAddress whose cancel leaves the stage "await_address"
AwaitAddress_CancelKeepsStage(query, tokens, S, menu_items, bill_id) ==
    LET context == S.context
        cancelled == [context EXCEPT !.address = NoAddress]
        addressed == [context EXCEPT !.address = Strip(query), !.stage = "ordering"]
    IN  IF tokens \cap CANCEL_KEYWORDS # {}
        THEN Outcome(<<>>, cancelled, S.bill,
                     _new_response("Pending order cancelled.", "order_cancelled",
                                   FALSE, 0, "", cancelled))
        ELSE IF _looks_like_address(query)
        THEN IF S.order # <<>>
             THEN Finalize(S.order, S, menu_items, addressed, bill_id)
             ELSE Outcome(S.order, addressed, S.bill,
                          Message("Address saved. You can continue ordering.", addressed))
        ELSE Outcome(S.order, context, S.bill,
                     _new_response("Please provide complete delivery address (house/flat, area, city, pincode).",
                                   "address_required", FALSE, 0, "", context))

\* lines 661-692
AwaitAddress(query, tokens, S, menu_items, bill_id) ==
    LET context == S.context
        cancelled == [context EXCEPT !.stage = "ordering", !.address = NoAddress]
        addressed == [context EXCEPT !.address = Strip(query), !.stage = "ordering"]
    IN  IF tokens \cap CANCEL_KEYWORDS # {}
        THEN Outcome(<<>>, cancelled, S.bill,
                     _new_response("Pending order cancelled.", "order_cancelled",
                                   FALSE, 0, "", cancelled))
        ELSE IF _looks_like_address(query)
        THEN IF S.order # <<>>
             THEN Finalize(S.order, S, menu_items, addressed, bill_id)
             ELSE Outcome(S.order, addressed, S.bill,
                          Message("Address saved. You can continue ordering.", addressed))
        ELSE Outcome(S.order, context, S.bill,
                     _new_response("Please provide complete delivery address (house/flat, area, city, pincode).",
                                   "address_required", FALSE, 0, "", context))

\* lines 702-705
Greeting(S) ==
    IF S.context.mode = ""
    THEN Outcome(S.order, S.context, S.bill,
                 Message("Hello. Is this for Dine-In or Online Delivery?", S.context))
    ELSE Outcome(S.order, S.context, S.bill,
                 Message("Hello. You can now choose Veg/Non-Veg and place your order.", S.context))

\* lines 610-705 answer the query before the order flow is asked
AnsweredBy(tokens, service_mode, slot, context) ==
    \/ service_mode # ""
    \/ context.stage = "await_slot"
    \/ context.mode = "dine_in" /\ context.stage = "ordering" /\ slot # ""
    \/ context.stage = "await_address"
    \/ context.mode = "" /\ tokens \cap NoModeKeywords # {}
    \/ tokens \cap GREETING_KEYWORDS # {}

AnsweredEarly(query, S) ==
    AnsweredBy(Tokenize(query), _detect_service_mode(query), _extract_slot(query), S.context)

\* lines 610-705, service_mode and slot being what lines 610, 636 and 652 extract
RulesBy(query, tokens, service_mode, slot, S, menu_items, bill_id) ==
    IF service_mode # "" THEN SelectMode(service_mode, S)
    ELSE IF S.context.stage = "await_slot" THEN AwaitSlot(slot, S)
    ELSE IF S.context.mode = "dine_in" /\ S.context.stage = "ordering" /\ slot # ""
    THEN UpdateSlot(slot, S)
    ELSE IF S.context.stage = "await_address"
    THEN AwaitAddress(query, tokens, S, menu_items, bill_id)
    ELSE IF S.context.mode = "" /\ tokens \cap NoModeKeywords # {}
    THEN Outcome(S.order, S.context, S.bill,
                 _new_response("Is this for Dine-In or Online Delivery?",
                               "mode_required", FALSE, 0, "", S.context))
    ELSE Greeting(S)

EarlyRules(query, S, menu_items, bill_id) ==
    RulesBy(query, Tokenize(query), _detect_service_mode(query), _extract_slot(query), S,
            menu_items, bill_id)

\* lines 708-724: the order flow's answer if it has one, else the static routes
StaticRoutes(query, flow, doc) ==
    LET tokens == Tokenize(query)
        context == flow.context
        Route(answer, kind) ==
            Outcome(flow.order, context, flow.bill,
                    _new_response(answer, kind, FALSE, 0, "", context))
    IN  IF Raised(flow.resp) \/ flow.resp.answer # "" THEN flow
        ELSE IF tokens \cap MENU_KEYWORDS # {}
        THEN Route(IF _extract_menu_items(doc) = <<>>
                   THEN "Menu is currently unavailable." ELSE "Menu Items:", "menu")
        ELSE IF tokens \cap HOURS_KEYWORDS # {} /\ doc.hours THEN Route("Opening Hours:", "hours")
        ELSE IF tokens \cap POLICY_KEYWORDS # {} /\ doc.policies THEN Route("Policies:", "policy")
        ELSE Route("", "message")

_rule_based_response(query, S, doc, bill_id) ==
    IF AnsweredEarly(query, S)
    THEN EarlyRules(query, S, _extract_menu_items(doc), bill_id)
    ELSE StaticRoutes(query,
                      _handle_order_flow(query, S.order, S, _extract_menu_items(doc), bill_id),
                      doc)

(***************************************************************************)
(* ask_question.  restaurant_text is [error, doc]: whether the read at    *)
(* process start failed, and what it read; data_file is [readable, doc].  *)
(***************************************************************************)
\* how the generation backend answers one call (lines 742-774)
BackendOutcomes == {"no_client", "answer", "empty", "quota", "not_found", "failure"}

FallbackAnswer(backend) ==
    CASE backend = "no_client" -> "Retrieved context"
      [] backend = "answer" -> "Generated answer"
      [] backend = "quota" -> "Model quota exceeded."
      [] backend = "not_found" -> "Model is unavailable."
      [] OTHER -> "I could not find that in the restaurant data."

\* _get_current_restaurant_lines
_get_current_restaurant_lines(text, file) ==
    IF file.readable THEN file.doc ELSE text.doc

\* the request reaches the answer fallback: the rules gave an empty answer
NoAnswer(resp) == ~Raised(resp) /\ resp.answer = ""

ReachesFallback(query, S, text, file, bill_id) ==
    /\ Strip(query) # <<>>
    /\ ~text.error
    /\ NoAnswer(_rule_based_response(Strip(query), S, _get_current_restaurant_lines(text, file),
                                     bill_id).resp)

\* lines 731-774, direct being the answer of the rules (line 738)
AnswerOf(question, S, text, direct, backend) ==
    IF question = <<>>
    THEN Outcome(S.order, S.context, S.bill,
                 Message("Please enter a valid question.", S.context))
    ELSE IF text.error
    THEN Outcome(S.order, S.context, S.bill, Message("DATA_LOAD_ERROR:", S.context))
    ELSE IF Raised(direct.resp) \/ direct.resp.answer # "" THEN direct
    ELSE Outcome(direct.order, direct.context, direct.bill,
                 Message(FallbackAnswer(backend), S.context))

ask_question(query, S, text, file, bill_id, backend) ==
    AnswerOf(Strip(query), S, text,
             _rule_based_response(Strip(query), S, _get_current_restaurant_lines(text, file),
                                  bill_id),
             backend)

(***************************************************************************)
(* The state machine.                                                     *)
(***************************************************************************)
\* the queries the customers send
Queries ==
    { <<>>, <<Blank>>, <<Blank, "menu", Blank>>,
      <<"dine", "in">>, <<"delivery">>,
      <<"8", "pm">>, <<"dinner">>,
      <<"confirm">>, <<"cancel">>, <<"menu">>, <<"hi">>, <<"order">>,
      <<"hours">>, <<"please">>,
      <<"2", "veg", "salad">>, <<"add", "curry">>, <<"0", "salad">>,
      <<"12", "main", "street">>, <<"main", "street">>,
      <<"ok", "12,main", "street">>,
      <<"confirm", "delivery">>, <<"confirm", "dinner">>, <<"cancel", "dinner">>,
      <<"hi", "confirm">>, <<"cancel", "order">> }

EmptyDoc == [menu |-> <<>>, hours |-> FALSE, policies |-> FALSE]

\* the knowledge file when it cannot be read
Unreadable == [readable |-> FALSE, doc |-> EmptyDoc]
Readable(doc) == [readable |-> TRUE, doc |-> doc]

Idle == [pc |-> "idle"]

\* the three records of one session
Session(s) ==
    [order |-> orders_by_session[s],
     context |-> session_context_by_session[s],
     bill |-> latest_bill_by_session[s]]

WithinBounds(order) == \A i \in 1..Len(order) : order[i].value <= MaxQty

\* the module is loaded: the knowledge file is read once (line 410), and the
\* session maps are empty (lines 414-416)
Init ==
    /\ orders_by_session = [s \in Sessions |-> <<>>]
    /\ session_context_by_session = [s \in Sessions |-> _default_session_context]
    /\ latest_bill_by_session = [s \in Sessions |-> NoBill]
    /\ \/ /\ data_file = Readable(DocFull)
          /\ restaurant_text = [error |-> FALSE, doc |-> DocFull]
       \/ /\ data_file = Unreadable
          /\ restaurant_text = [error |-> TRUE, doc |-> EmptyDoc]
    /\ threads = [t \in Threads |-> Idle]

\* the session maps after a step on session s, the quantities within the bound
Store(s, out) ==
    /\ WithinBounds(out.order)
    /\ orders_by_session' = [orders_by_session EXCEPT ![s] = out.order]
    /\ session_context_by_session' = [session_context_by_session EXCEPT ![s] = out.context]
    /\ latest_bill_by_session' = [latest_bill_by_session EXCEPT ![s] = out.bill]

FirstBillId == CHOOSE id \in BillIds : TRUE

\* the request draws a bill id (uuid4, line 377) only when it bills
BillIdsDrawn(query, S, text, file) ==
    IF ask_question(query, S, text, file, FirstBillId, "no_client").resp.kind = "bill"
    THEN BillIds ELSE {FirstBillId}

\* the request calls the backend only when it reaches the fallback
BackendsAsked(query, S, text, file) ==
    IF ReachesFallback(query, S, text, file, FirstBillId)
    THEN BackendOutcomes ELSE {"no_client"}

\* POST /ask served from start to end with no other request in between
Ask(s, query) ==
    /\ \A t \in Threads : threads[t] = Idle
    /\ \E bill_id \in BillIdsDrawn(query, Session(s), restaurant_text, data_file),
          backend \in BackendsAsked(query, Session(s), restaurant_text, data_file) :
        Store(s, ask_question(query, Session(s), restaurant_text, data_file, bill_id, backend))
    /\ UNCHANGED <<restaurant_text, data_file, threads>>

\* the knowledge file is written while the service runs
EditKnowledgeFile(doc) ==
    /\ data_file # Readable(doc)
    /\ data_file' = Readable(doc)
    /\ UNCHANGED <<orders_by_session, session_context_by_session, latest_bill_by_session,
                   restaurant_text, threads>>

\* the knowledge file becomes unreadable
LoseKnowledgeFile ==
    /\ data_file.readable
    /\ data_file' = Unreadable
    /\ UNCHANGED <<orders_by_session, session_context_by_session, latest_bill_by_session,
                   restaurant_text, threads>>

Next ==
    \/ \E s \in Sessions, query \in Queries : Ask(s, query)
    \/ \E doc \in Docs : EditKnowledgeFile(doc)
    \/ LoseKnowledgeFile

Spec == Init /\ [][Next]_vars

(***************************************************************************)
(* What the properties below are stated with.                             *)
(***************************************************************************)
\* the knowledge text was read at process start
Loaded == ~restaurant_text.error

\* the menu a request served now works with
CurrentMenu == _extract_menu_items(_get_current_restaurant_lines(restaurant_text, data_file))

\* what ask_question does with the query on session s as it is now
Served(s, query) ==
    ask_question(query, Session(s), restaurant_text, data_file, FirstBillId, "no_client")

ServedWith(s, query, bill_id, backend) ==
    ask_question(query, Session(s), restaurant_text, data_file, bill_id, backend)

\* the session an outcome leaves, and whether it is the session S
Left(out) == [order |-> out.order, context |-> out.context, bill |-> out.bill]
Unchanged(out, S) == Left(out) = S

HasKeyword(query, keywords) == Tokenize(query) \cap keywords # {}
HasModePhrase(query) == _detect_service_mode(Strip(query)) # ""
HasSlot(query) == _extract_slot(Strip(query)) # ""

(***************************************************************************)
(* C1: in every reachable state, stage "await_slot" occurs only with mode *)
(* "dine_in", stage "await_address" only with mode "delivery", and an     *)
(* empty mode only with stage "choose_mode".                              *)
(***************************************************************************)
C1_StageFitsMode ==
    \A s \in Sessions :
        LET context == session_context_by_session[s]
        IN  /\ context.stage = "await_slot" => context.mode = "dine_in"
            /\ context.stage = "await_address" => context.mode = "delivery"
            /\ context.mode = "" => context.stage = "choose_mode"

C1_Witness ==
    \E s \in Sessions :
        /\ session_context_by_session[s].stage = "await_address"
        /\ session_context_by_session[s].mode = "delivery"
        /\ orders_by_session[s] # <<>>

(***************************************************************************)
(* C2: with a pending order and mode m, a query that selects another mode *)
(* leaves no pending order; one that selects m again leaves the pending   *)
(* order as it was.                                                       *)
(***************************************************************************)
C2_ModeSwitchClearsOrder ==
    \A s \in Sessions, query \in Queries :
        LET S == Session(s)
            out == Served(s, query)
        IN  Loaded /\ S.order # <<>> /\ HasModePhrase(query) =>
                out.order = IF _detect_service_mode(Strip(query)) # S.context.mode
                            THEN <<>> ELSE S.order

C2_Witness ==
    \E s \in Sessions, switch \in Queries, again \in Queries :
        /\ Loaded /\ orders_by_session[s] # <<>>
        /\ HasModePhrase(switch) /\ HasModePhrase(again)
        /\ _detect_service_mode(Strip(switch)) # session_context_by_session[s].mode
        /\ _detect_service_mode(Strip(again)) = session_context_by_session[s].mode
        /\ Served(s, switch).order = <<>>
        /\ Served(s, again).order = orders_by_session[s]

(***************************************************************************)
(* C3: in mode "dine_in" with no slot, a query with a confirm keyword and *)
(* neither a slot expression nor a mode phrase stores no bill and is      *)
(* answered with kind "slot_required".  As claimed, order_pending is true *)
(* in that answer (C3_AsClaimed); in the code no order can be pending in  *)
(* such a state, the stage is "await_slot", and order_pending is false    *)
(* (C3_ConfirmWithoutSlot).                                               *)
(***************************************************************************)
C3_Case(s, query) ==
    /\ Loaded
    /\ session_context_by_session[s].mode = "dine_in"
    /\ session_context_by_session[s].slot = ""
    /\ HasKeyword(query, CONFIRM_KEYWORDS)
    /\ ~HasSlot(query)
    /\ ~HasModePhrase(query)

C3_AsClaimed ==
    \A s \in Sessions, query \in Queries :
        C3_Case(s, query) =>
            /\ Served(s, query).bill = latest_bill_by_session[s]
            /\ Served(s, query).resp.kind = "slot_required"
            /\ Served(s, query).resp.order_pending = TRUE

C3_ConfirmWithoutSlot ==
    \A s \in Sessions, query \in Queries :
        C3_Case(s, query) =>
            /\ Served(s, query).bill = latest_bill_by_session[s]
            /\ Served(s, query).resp.kind = "slot_required"
            /\ Served(s, query).resp.order_pending = FALSE
            /\ orders_by_session[s] = <<>>

C3_Witness ==
    \E s \in Sessions, query \in Queries :
        /\ C3_Case(s, query)
        /\ latest_bill_by_session[s] # NoBill
        /\ Served(s, query).resp.kind = "slot_required"

(***************************************************************************)
(* C4: in mode "delivery" with no address recorded, a query with a        *)
(* confirm keyword stores no bill and is answered with kind               *)
(* "address_required".  As claimed this holds whatever the stage, the     *)
(* pending order and the rest of the query (C4_AsClaimed).  In the code   *)
(* it holds when an order is pending whose items are all on the menu read *)
(* for the request, and the query has no cancel keyword and no mode       *)
(* phrase, no greeting keyword while the stage is "ordering", and does    *)
(* not pass the address heuristic while the stage is "await_address"      *)
(* (C4_ConfirmWithoutAddress).                                            *)
(***************************************************************************)
C4_Case(s, query) ==
    /\ Loaded
    /\ session_context_by_session[s].mode = "delivery"
    /\ session_context_by_session[s].address = NoAddress
    /\ HasKeyword(query, CONFIRM_KEYWORDS)

C4_Narrowed(s, query) ==
    /\ C4_Case(s, query)
    /\ orders_by_session[s] # <<>>
    /\ OrderKnown(orders_by_session[s], CurrentMenu)
    /\ ~HasKeyword(query, CANCEL_KEYWORDS)
    /\ ~HasModePhrase(query)
    /\ session_context_by_session[s].stage = "ordering" => ~HasKeyword(query, GREETING_KEYWORDS)
    /\ session_context_by_session[s].stage = "await_address" => ~_looks_like_address(Strip(query))

BilledContext(s, query) ==
    IF session_context_by_session[s].stage = "await_address" /\ ~HasModePhrase(query)
    THEN [session_context_by_session[s] EXCEPT !.address = Strip(query), !.stage = "ordering"]
    ELSE session_context_by_session[s]

C5_FinalizeResets ==
    \A s \in Sessions, query \in Queries, bill_id \in BillIds :
        LET out == ServedWith(s, query, bill_id, "no_client")
        IN  out.resp.kind = "bill" =>
                /\ out.order = <<>>
                /\ out.context = _default_session_context
                /\ out.bill = _generate_bill(orders_by_session[s], CurrentMenu,
                                             BilledContext(s, query), bill_id)
                /\ out.resp.bill_id = bill_id
                /\ out.resp.total = out.bill.total

C5_Witness ==
    \E s \in Sessions, query \in Queries :
        /\ session_context_by_session[s].mode = "dine_in"
        /\ session_context_by_session[s].slot # ""
        /\ Len(orders_by_session[s]) = 2
        /\ latest_bill_by_session[s] # NoBill
        /\ Served(s, query).resp.kind = "bill"
        /\ Served(s, query).bill # latest_bill_by_session[s]

(***************************************************************************)
(* C6: in every stored bill each row has line_total = unit_price x        *)
(* quantity, subtotal is the sum of the line totals, gst is an integer    *)
(* nearest to 5% of subtotal, and total = subtotal + gst.                 *)
(***************************************************************************)
RECURSIVE SumLineTotals(_)
SumLineTotals(rows) ==
    IF rows = <<>> THEN 0 ELSE Head(rows).line_total + SumLineTotals(Tail(rows))

C6_BillArithmetic ==
    \A s \in Sessions :
        LET bill == latest_bill_by_session[s]
        IN  bill # NoBill =>
                /\ \A i \in 1..Len(bill.items) :
                       bill.items[i].line_total = bill.items[i].unit_price * bill.items[i].quantity
                /\ bill.subtotal = SumLineTotals(bill.items)
                /\ 100 * bill.gst - 5 * bill.subtotal <= 50
                /\ 5 * bill.subtotal - 100 * bill.gst <= 50
                /\ bill.total = bill.subtotal + bill.gst

\* a bill whose tax is not a whole number before rounding, and is rounded up
C6_Witness ==
    \E s \in Sessions :
        /\ latest_bill_by_session[s] # NoBill
        /\ latest_bill_by_session[s].items # <<>>
        /\ (5 * latest_bill_by_session[s].subtotal) % 100 > 50
        /\ latest_bill_by_session[s].gst * 100 > 5 * latest_bill_by_session[s].subtotal

(***************************************************************************)
(* C8: no request raises, whatever the session and the query, also when   *)
(* the knowledge file was edited after the pending order was built; and   *)
(* an empty or whitespace-only query is answered with a prompt and        *)
(* leaves the session as it was.                                          *)
(***************************************************************************)
C8_NoRequestRaises ==
    \A s \in Sessions, query \in Queries :
        /\ ~Raised(Served(s, query).resp)
        /\ Strip(query) = <<>> =>
               /\ Served(s, query).resp.answer = "Please enter a valid question."
               /\ Unchanged(Served(s, query), Session(s))

(***************************************************************************)
(* C9: once a cancel query has cancelled a pending order, the next two    *)
(* cancel queries in a row are each answered "No pending order to         *)
(* cancel." and leave pending order, context and latest bill as they      *)
(* were.  A cancel query is one with a cancel keyword and no mode phrase, *)
(* greeting keyword or slot expression.                                   *)
(***************************************************************************)
CancelQueries ==
    {query \in Queries :
        /\ HasKeyword(query, CANCEL_KEYWORDS)
        /\ ~HasKeyword(query, GREETING_KEYWORDS)
        /\ ~HasModePhrase(query)
        /\ ~HasSlot(query)}

\* ask_question on the session an earlier outcome left
ServedAfter(out, query) ==
    ask_question(query, Left(out), restaurant_text, data_file, FirstBillId, "no_client")

NothingToCancel(before, out) ==
    /\ out.resp.answer = "No pending order to cancel."
    /\ out.resp.kind = "message"
    /\ Left(out) = Left(before)

C9_CancelIdempotent ==
    \A s \in Sessions, first \in CancelQueries, second \in CancelQueries, third \in CancelQueries :
        LET cancelled == Served(s, first)
            again == ServedAfter(cancelled, second)
            once_more == ServedAfter(again, third)
        IN  cancelled.resp.kind = "order_cancelled" =>
                /\ NothingToCancel(cancelled, again)
                /\ NothingToCancel(again, once_more)

C9_Witness ==
    \E s \in Sessions, first \in CancelQueries, second \in CancelQueries :
        /\ session_context_by_session[s].stage = "await_address"
        /\ latest_bill_by_session[s] # NoBill
        /\ Served(s, first).resp.kind = "order_cancelled"
        /\ Served(s, first).order = <<>>
        /\ ServedAfter(Served(s, first), second).resp.answer = "No pending order to cancel."

(***************************************************************************)
(* C10: with no mode selected, a query whose only keyword is a menu       *)
(* keyword.  As claimed it is answered with the menu listing, kind "menu" *)
(* (C10_AsClaimed); in the code the rule for a session without a mode     *)
(* comes first and it is answered with the mode prompt, kind              *)
(* "mode_required" (C10_MenuBeforeMode).                                  *)
(***************************************************************************)
C10_Case(s, query) ==
    /\ Loaded
    /\ session_context_by_session[s].mode = ""
    /\ HasKeyword(query, MENU_KEYWORDS)
    /\ ~HasKeyword(query, GREETING_KEYWORDS \cup ORDER_KEYWORDS \cup CONFIRM_KEYWORDS
                              \cup CANCEL_KEYWORDS)
    /\ ~HasModePhrase(query)

C10_AsClaimed ==
    \A s \in Sessions, query \in Queries :
        C10_Case(s, query) => Served(s, query).resp.kind = "menu"

C10_MenuBeforeMode ==
    \A s \in Sessions, query \in Queries :
        C10_Case(s, query) => Served(s, query).resp.kind = "mode_required"

C10_Witness ==
    \E s \in Sessions, query \in Queries :
        /\ C10_Case(s, query)
        /\ latest_bill_by_session[s] # NoBill
        /\ Served(s, query).resp.kind = "mode_required"
        /\ Served(s, query).resp.answer = "Is this for Dine-In or Online Delivery?"

(***************************************************************************)
(* Two requests on one session served at the same time.  POST /ask is a   *)
(* plain def (main.py lines 56-58), so each request runs on a worker      *)
(* thread and nothing in ask_question holds a lock: a thread may be       *)
(* switched out between any two lines.  The switch modelled here is the   *)
(* one after _handle_order_flow has copied the pending order (line 506):  *)
(* Enter runs a request up to that copy, Leave runs the rest of it.  A    *)
(* request answered before the order flow is served in one step.  The     *)
(* knowledge file is left alone meanwhile.                                *)
(*                                                                        *)
(* A request works on the context dict it fetched at line 608.  The dict  *)
(* is the one in session_context_by_session, shared with every other      *)
(* request of the session, until a finalizing request puts a new dict in  *)
(* the map (_reset_session_context, line 430): a request then in the      *)
(* order flow keeps the old dict, with what was in it at that moment, and *)
(* what it writes to it no longer reaches the map.                        *)
(***************************************************************************)
\* the requests that build a session up before the two arrive
SetupQueries ==
    { <<"dine", "in">>, <<"8", "pm">>, <<"delivery">>, <<"2", "veg", "salad">>,
      <<"add", "curry">>, <<"confirm">> }

\* the requests that arrive together
ConcurrentQueries ==
    { <<"add", "curry">>, <<"cancel">>, <<"confirm">>, <<"12", "main", "street">> }

NoOutcome == Outcome(<<>>, _default_session_context, NoBill, Message("", _default_session_context))

InFlight(pc, session, query, base, pending, bill_id, resp) ==
    [pc |-> pc, session |-> session, query |-> query, base |-> base,
     pending |-> pending, bill_id |-> bill_id, resp |-> resp,
     detached |-> FALSE, context |-> base.context]

\* the context dict the request holds: the one in the map, or the one it was left with
ViewOf(t) ==
    IF threads[t].detached THEN threads[t].context
    ELSE session_context_by_session[threads[t].session]

\* the session as the request in the order flow sees it
SessionSeenBy(t) ==
    [order |-> orders_by_session[threads[t].session],
     context |-> ViewOf(t),
     bill |-> latest_bill_by_session[threads[t].session]]

\* the other request is in the order flow with the dict that a reset now replaces
LeftBehind(u, t, out) ==
    /\ out.resp.kind = "bill"
    /\ threads[u] # Idle
    /\ threads[u].pc = "flow"
    /\ ~threads[u].detached
    /\ threads[u].session = threads[t].session

\* the request goes on to _handle_order_flow
EntersOrderFlow(query, S, text) ==
    /\ Strip(query) # <<>>
    /\ ~text.error
    /\ ~AnsweredEarly(Strip(query), S)

\* lines 508-602 on the copy taken, then lines 708-724 and the fallback
ask_question_from_flow(query, pending, S, text, file, bill_id, backend) ==
    AnswerOf(Strip(query), S, text,
             StaticRoutes(Strip(query),
                          _handle_order_flow(Strip(query), pending, S,
                                             _extract_menu_items(
                                                 _get_current_restaurant_lines(text, file)),
                                             bill_id),
                          _get_current_restaurant_lines(text, file)),
             backend)

\* the request has returned: the session maps and the threads after it, old being
\* the content of the dict this request worked on
Return(t, out, old) ==
    /\ WithinBounds(out.order)
    /\ orders_by_session' = [orders_by_session EXCEPT ![threads[t].session] = out.order]
    /\ latest_bill_by_session' = [latest_bill_by_session EXCEPT ![threads[t].session] = out.bill]
    /\ session_context_by_session' =
           IF threads[t].detached /\ out.resp.kind # "bill"
           THEN session_context_by_session
           ELSE [session_context_by_session EXCEPT ![threads[t].session] = out.context]
    /\ threads' = [u \in Threads |->
                      IF u = t THEN [threads[t] EXCEPT !.pc = "done", !.resp = out.resp]
                      ELSE IF LeftBehind(u, t, out)
                      THEN [threads[u] EXCEPT !.detached = TRUE, !.context = old]
                      ELSE threads[u]]

\* two requests for session s arrive while no other is in flight
Arrive(s, query1, query2) ==
    /\ \A t \in Threads : threads[t] = Idle
    /\ Loaded
    /\ orders_by_session[s] # <<>>
    /\ \E id1 \in BillIds, id2 \in BillIds :
        threads' = [t \in Threads |->
                       InFlight("start", s, IF t = "t1" THEN query1 ELSE query2, Session(s),
                                <<>>, IF t = "t1" THEN id1 ELSE id2, NoOutcome.resp)]
    /\ UNCHANGED <<orders_by_session, session_context_by_session, latest_bill_by_session,
                   restaurant_text, data_file>>

\* a thread runs its request up to line 506, or to its end when an earlier rule answers it
Enter(t) ==
    /\ threads[t] # Idle
    /\ threads[t].pc = "start"
    /\ LET r == threads[t]
           S == Session(r.session)
       IN  IF EntersOrderFlow(r.query, S, restaurant_text)
           THEN /\ threads' = [threads EXCEPT ![t] = [r EXCEPT !.pc = "flow", !.pending = S.order]]
                /\ UNCHANGED <<orders_by_session, session_context_by_session,
                               latest_bill_by_session>>
           ELSE Return(t, ask_question(r.query, S, restaurant_text, data_file, r.bill_id,
                                        "no_client"),
                       [S.context EXCEPT !.address = Strip(r.query), !.stage = "ordering"])
    /\ UNCHANGED <<restaurant_text, data_file>>

\* the thread runs the rest of its request, with the copy it took, the dict it holds
\* and the maps as they are now
Leave(t) ==
    /\ threads[t] # Idle
    /\ threads[t].pc = "flow"
    /\ Return(t, ask_question_from_flow(threads[t].query, threads[t].pending,
                                        SessionSeenBy(t), restaurant_text,
                                        data_file, threads[t].bill_id, "no_client"),
              ViewOf(t))
    /\ UNCHANGED <<restaurant_text, data_file>>

NextConcurrent ==
    \/ \E s \in Sessions, query \in SetupQueries : Ask(s, query)
    \/ \E s \in Sessions, query1 \in ConcurrentQueries, query2 \in ConcurrentQueries :
           Arrive(s, query1, query2)
    \/ \E t \in Threads : Enter(t)
    \/ \E t \in Threads : Leave(t)

SpecConcurrent == Init /\ [][NextConcurrent]_vars

\* both requests have returned
BothDone == \A t \in Threads : threads[t] # Idle /\ threads[t].pc = "done"

\* the session the two requests leave when served one after the other, first then second
SerialOutcome(first, second) ==
    LET one == ask_question(first.query, first.base, restaurant_text, data_file,
                            first.bill_id, "no_client")
    IN  Left(ask_question(second.query, Left(one), restaurant_text, data_file,
                          second.bill_id, "no_client"))

(***************************************************************************)
(* C7: two requests on one session that run at the same time leave the    *)
(* pending order, the context and the latest bill that one of the two     *)
(* serial orders of the requests leaves.                                  *)
(***************************************************************************)
C7_Serializable ==
    BothDone =>
        Session(threads["t1"].session) \in
            { SerialOutcome(threads["t1"], threads["t2"]),
              SerialOutcome(threads["t2"], threads["t1"]) }

(***************************************************************************)
(* C11: from a fresh session, a dine-in selection, a slot, an item query  *)
(* and "confirm" go through mode dine_in with stage await_slot, the slot  *)
(* recorded with stage ordering, the pending order equal to the parsed    *)
(* items, and then a stored bill with mode dine_in, the recorded slot and *)
(* the pending order as its items; no bill is stored before the confirm.  *)
(* "2 veg salad" at 120 is billed 240 + 12 = 252.                         *)
(***************************************************************************)
FreshSession(s) ==
    /\ orders_by_session[s] = <<>>
    /\ session_context_by_session[s] = _default_session_context

\* the items the query orders from the menu read now
ParsedNow(query) == _parse_order_from_query(Strip(query), _build_menu_alias_map(CurrentMenu))

SlotQueries == { <<"8", "pm">>, <<"dinner">> }

\* queries that order something known and carry nothing an earlier rule answers
ItemQueries ==
    {query \in Queries :
        /\ ParsedNow(query) # <<>>
        /\ OrderKnown(ParsedNow(query), CurrentMenu)
        /\ ~HasModePhrase(query) /\ ~HasSlot(query)
        /\ ~HasKeyword(Strip(query), GREETING_KEYWORDS \cup CANCEL_KEYWORDS \cup CONFIRM_KEYWORDS)}

DineInScenario(s, slot_query, item_query, bill_id) ==
    LET S == Session(s)
        selected == Served(s, <<"dine", "in">>)
        slotted == ServedAfter(selected, slot_query)
        ordered == ServedAfter(slotted, item_query)
        billed == ask_question(<<"confirm">>, Left(ordered), restaurant_text, data_file,
                               bill_id, "no_client")
    IN  /\ selected.context.mode = "dine_in" /\ selected.context.stage = "await_slot"
        /\ selected.order = <<>> /\ selected.bill = S.bill
        /\ slotted.context.mode = "dine_in" /\ slotted.context.stage = "ordering"
        /\ slotted.context.slot = _extract_slot(slot_query)
        /\ slotted.order = <<>> /\ slotted.bill = S.bill
        /\ ordered.order = ParsedNow(item_query)
        /\ ordered.context = slotted.context /\ ordered.bill = S.bill
        /\ billed.resp.kind = "bill"
        /\ billed.bill.bill_id = bill_id
        /\ billed.bill.mode = "dine_in"
        /\ billed.bill.slot = _extract_slot(slot_query)
        /\ Len(billed.bill.items) = Len(ordered.order)
        /\ \A i \in 1..Len(ordered.order) :
               /\ billed.bill.items[i].name = ordered.order[i].key
               /\ billed.bill.items[i].quantity = ordered.order[i].value
        /\ (item_query = <<"2", "veg", "salad">> /\ PriceOf(CurrentMenu, "Veg Salad") = 120) =>
               /\ billed.bill.subtotal = 240
               /\ billed.bill.gst = 12
               /\ billed.bill.total = 252
               /\ slot_query = <<"8", "pm">> => billed.bill.slot = "8 PM"

C11_DineInScenario ==
    \A s \in Sessions, slot_query \in SlotQueries, item_query \in ItemQueries,
       bill_id \in BillIds :
        Loaded /\ FreshSession(s) => DineInScenario(s, slot_query, item_query, bill_id)

\* the scenario has been played: its bill is the session's latest
C11_Witness ==
    \E s \in Sessions :
        /\ Loaded /\ FreshSession(s)
        /\ latest_bill_by_session[s] # NoBill
        /\ latest_bill_by_session[s].mode = "dine_in"
        /\ latest_bill_by_session[s].slot = "8 PM"
        /\ latest_bill_by_session[s].total = 252

(***************************************************************************)
(* C12: the answer fallback is reached only when the rules gave an empty  *)
(* answer; a request that reaches it leaves the pending order, the        *)
(* context and the latest bill as they were, however the backend call     *)
(* ends; a request that does not reach it is served the same whether the *)
(* backend would fail or is absent.                                       *)
(***************************************************************************)
ReachesFallbackNow(s, query) ==
    ReachesFallback(query, Session(s), restaurant_text, data_file, FirstBillId)

C12_FallbackFrame ==
    \A s \in Sessions, query \in Queries :
        IF ReachesFallbackNow(s, query)
        THEN \A backend \in BackendOutcomes :
                 /\ Unchanged(ServedWith(s, query, FirstBillId, backend), Session(s))
                 /\ ServedWith(s, query, FirstBillId, backend).resp
                        = Message(FallbackAnswer(backend), Session(s).context)
        ELSE ServedWith(s, query, FirstBillId, "failure") = Served(s, query)

C12_Witness ==
    \E s \in Sessions, query \in Queries :
        /\ orders_by_session[s] # <<>>
        /\ latest_bill_by_session[s] # NoBill
        /\ ReachesFallbackNow(s, query)
        /\ \E backend \in BackendOutcomes :
               ServedWith(s, query, FirstBillId, backend).resp.answer = "Model quota exceeded."

(***************************************************************************)
(* C13: once the knowledge file is readable, a query is answered from     *)
(* what the file holds now and not with the load-error text; while the    *)
(* file cannot be read after a successful start, a query is answered from *)
(* the content read at process start.                                     *)
(***************************************************************************)
\* the answer the query gets when the rules work with the document doc
AnsweredFrom(s, query, doc) ==
    ask_question(query, Session(s), [error |-> FALSE, doc |-> doc], Readable(doc),
                 FirstBillId, "no_client")

C13_FileRecovery ==
    \A s \in Sessions, query \in Queries :
        Strip(query) # <<>> =>
            /\ data_file.readable =>
                   /\ Served(s, query).resp.answer # "DATA_LOAD_ERROR:"
                   /\ Served(s, query) = AnsweredFrom(s, query, data_file.doc)
            /\ (~data_file.readable /\ Loaded) =>
                   Served(s, query) = AnsweredFrom(s, query, restaurant_text.doc)

(***************************************************************************)
(* C14: in every reachable state every quantity of a pending order is at  *)
(* least 1.                                                               *)
(***************************************************************************)
C14_PositiveQuantities ==
    \A s \in Sessions :
        \A i \in 1..Len(orders_by_session[s]) : orders_by_session[s][i].value >= 1

(***************************************************************************)
(* Several sessions served by one process, one request at a time, with    *)
(* the knowledge file left alone.                                         *)
(***************************************************************************)
AllSessions == {"s1", "s2"}

SessionQueries ==
    { <<"dine", "in">>, <<"delivery">>, <<"8", "pm">>, <<"add", "curry">>,
      <<"confirm">>, <<"cancel">>, <<"12", "main", "street">> }

InitSessions ==
    /\ orders_by_session = [s \in AllSessions |-> <<>>]
    /\ session_context_by_session = [s \in AllSessions |-> _default_session_context]
    /\ latest_bill_by_session = [s \in AllSessions |-> NoBill]
    /\ data_file = Readable(DocFull)
    /\ restaurant_text = [error |-> FALSE, doc |-> DocFull]
    /\ threads = [t \in Threads |-> Idle]

NextSessions == \E s \in AllSessions, query \in SessionQueries : Ask(s, query)

SpecSessions == InitSessions /\ [][NextSessions]_vars

\* get_latest_bill: the bill stored for the session, NoBill standing for None
get_latest_bill(s) == latest_bill_by_session[s]

(***************************************************************************)
(* C15: get_latest_bill(s) is nothing until session s finalizes an order, *)
(* and it changes only when a request on session s finalizes one, to the  *)
(* bill of that finalization; no other request, on s or on another        *)
(* session, changes or removes it.                                        *)
(***************************************************************************)
\* the step serves a request on session s that ends with a bill, and stores that bill
FinalizesIn(s) ==
    \E query \in SessionQueries, bill_id \in BillIds :
        LET out == ServedWith(s, query, bill_id, "no_client")
        IN  /\ out.resp.kind = "bill"
            /\ out.bill.bill_id = out.resp.bill_id
            /\ orders_by_session'[s] = out.order
            /\ session_context_by_session'[s] = out.context
            /\ get_latest_bill(s)' = out.bill

BillKept(s) == get_latest_bill(s)' = get_latest_bill(s)

C15_LatestBill ==
    [][\A s \in AllSessions :
           /\ BillKept(s) \/ FinalizesIn(s)
           /\ \A other \in AllSessions \ {s} :
                  (orders_by_session'[other] # orders_by_session[other]
                   \/ session_context_by_session'[other] # session_context_by_session[other])
                      => BillKept(s)]_vars

\* one session holds a bill and a new pending order while the other has been billed too
C15_Witness ==
    \E s \in AllSessions, other \in AllSessions :
        /\ s # other
        /\ get_latest_bill(s) # NoBill
        /\ orders_by_session[s] # <<>>
        /\ get_latest_bill(other) # NoBill
        /\ get_latest_bill(other) # get_latest_bill(s)

(***************************************************************************)
(* C16: an item matched through several of its aliases gets the largest   *)
(* of the quantities found per alias (the number before the alias, else   *)
(* the number after it, else 1), not their sum; an item matched through   *)
(* none is not ordered.                                                   *)
(***************************************************************************)
\* the positions in the alias map of the aliases of the item that the query matches
MatchedAliases(q, alias_map, name) ==
    {n \in 1..Len(alias_map) : alias_map[n].value.name = name /\ AliasFound(q, alias_map[n].key)}

LargestQuantity(q, alias_map, matched) ==
    CHOOSE qty \in {AliasQuantity(q, alias_map[n].key) : n \in matched} :
        \A n \in matched : AliasQuantity(q, alias_map[n].key) <= qty

\* the queries of the customers and some that match an item through three aliases,
\* or carry a number on each side of it
ParseQueries ==
    Queries \cup { <<"2", "chicken", "curry">>, <<"chicken", "curry", "2">>,
                   <<"1", "veg", "salad", "2">>, <<"curry", "x", "3">>,
                   <<"2", "x", "salad", "and", "3", "curry">> }

C16_AliasMaximum ==
    \A query \in ParseQueries :
        LET q == Strip(query)
            alias_map == _build_menu_alias_map(CurrentMenu)
            parsed == _parse_order_from_query(q, alias_map)
        IN  /\ \A i \in 1..Len(CurrentMenu) :
                   LET name == CurrentMenu[i].name
                       matched == MatchedAliases(q, alias_map, name)
                   IN  IF matched = {} THEN ~HasKey(parsed, name)
                       ELSE /\ HasKey(parsed, name)
                            /\ Get(parsed, name, 0) = LargestQuantity(q, alias_map, matched)
            /\ \A i \in 1..Len(parsed) : InMenu(CurrentMenu, parsed[i].key)
            /\ (query = <<"2", "chicken", "curry">> /\ InMenu(CurrentMenu, "Chicken Curry")) =>
                   parsed = <<[key |-> "Chicken Curry", value |-> 2]>>
            /\ (query = <<"1", "veg", "salad", "2">> /\ InMenu(CurrentMenu, "Veg Salad")) =>
                   parsed = <<[key |-> "Veg Salad", value |-> 2]>>

\* an order was stored from a query that matches two aliases of one item, with
\* quantities 2 and 1
C16_Witness ==
    \E s \in Sessions :
        LET q == <<"2", "veg", "salad">>
            alias_map == _build_menu_alias_map(CurrentMenu)
        IN  /\ Cardinality(MatchedAliases(q, alias_map, "Veg Salad")) = 2
            /\ \E n \in MatchedAliases(q, alias_map, "Veg Salad") :
                   AliasQuantity(q, alias_map[n].key) = 1
            /\ orders_by_session[s] = <<[key |-> "Veg Salad", value |-> 2]>>

(***************************************************************************)
(* C17: with a pending order, a query with a cancel keyword and no mode   *)
(* phrase leaves no pending order and is answered with kind               *)
(* "order_cancelled"; from stage await_address the stage becomes          *)
(* "ordering" and the address is cleared.                                 *)
(***************************************************************************)
C17_Case(s, query) ==
    /\ Loaded
    /\ orders_by_session[s] # <<>>
    /\ HasKeyword(Strip(query), CANCEL_KEYWORDS)
    /\ ~HasModePhrase(query)

Cancelled(s, query) ==
    LET out == Served(s, query)
    IN  /\ out.order = <<>>
        /\ out.resp.kind = "order_cancelled"
        /\ out.bill = Session(s).bill
        /\ session_context_by_session[s].stage = "await_address" =>
               /\ out.context.stage = "ordering"
               /\ out.context.address = NoAddress
               /\ out.context.mode = "delivery"

\* C17 as stated, for every stage
C17_AsClaimed ==
    \A s \in Sessions, query \in Queries : C17_Case(s, query) => Cancelled(s, query)

\* the cases in which no earlier rule answers the query: the stage is not await_slot,
\* and in stage ordering the query has no greeting keyword and, for dine-in, no slot
C17_Narrowed(s, query) ==
    LET context == session_context_by_session[s]
    IN  /\ C17_Case(s, query)
        /\ context.stage # "await_slot"
        /\ context.stage # "await_address" =>
               /\ ~HasKeyword(Strip(query), GREETING_KEYWORDS)
               /\ ~(context.mode = "dine_in" /\ HasSlot(query))

C17_CancelClearsOrder ==
    \A s \in Sessions, query \in Queries : C17_Narrowed(s, query) => Cancelled(s, query)

C17_Witness ==
    \E s \in Sessions, query \in Queries :
        /\ C17_Narrowed(s, query)
        /\ session_context_by_session[s].stage = "await_address"
        /\ HasSlot(query)
        /\ \E other \in Queries :
               /\ C17_Narrowed(s, other)
               /\ HasKeyword(Strip(other), ORDER_KEYWORDS)

(***************************************************************************)
(* C18: with no mode selected, a query with a greeting, order, menu,      *)
(* confirm or cancel keyword and no mode phrase is answered with kind     *)
(* "mode_required" and leaves the pending order, the context and the      *)
(* latest bill as they were.                                              *)
(***************************************************************************)
C18_Case(s, query) ==
    /\ Loaded
    /\ session_context_by_session[s].mode = ""
    /\ ~HasModePhrase(query)
    /\ HasKeyword(Strip(query),
                  GREETING_KEYWORDS \cup ORDER_KEYWORDS \cup MENU_KEYWORDS
                      \cup CONFIRM_KEYWORDS \cup CANCEL_KEYWORDS)

C18_ModePromptFrame ==
    \A s \in Sessions, query \in Queries :
        C18_Case(s, query) =>
            /\ Served(s, query).resp.kind = "mode_required"
            /\ Served(s, query).resp.answer = "Is this for Dine-In or Online Delivery?"
            /\ Unchanged(Served(s, query), Session(s))

\* after a bill, with no mode: a greeting, a slot with a confirm keyword, an item query
C18_Witness ==
    \E s \in Sessions :
        /\ latest_bill_by_session[s] # NoBill
        /\ C18_Case(s, <<"hi">>)
        /\ C18_Case(s, <<"confirm", "dinner">>)
        /\ C18_Case(s, <<"add", "curry">>)
        /\ Served(s, <<"hi">>).resp.kind = "mode_required"

(***************************************************************************)
(* C19: in any state a query detected as dine-in sets mode "dine_in" and  *)
(* stage "await_slot", clears the address and keeps the slot; one         *)
(* detected as delivery sets mode "delivery" and stage "ordering" and     *)
(* clears the slot; the answer has kind "mode_selected" whatever the      *)
(* stage and whatever else the query carries.                             *)
(***************************************************************************)
\* the queries of the customers and some that carry a mode phrase beside a cancel or
\* greeting keyword, a slot, an address or a menu keyword
ModeQueries ==
    Queries \cup { <<"cancel", "dine", "in">>, <<"table", "8", "pm">>,
                   <<"12", "main", "street", "delivery">>, <<"hi", "delivery">>,
                   <<"vegetable", "menu">>, <<"dine", "in", "delivery">>,
                   <<"confirm", "eat", "in">> }

C19_ModeSelection ==
    \A s \in Sessions, query \in ModeQueries :
        LET context == session_context_by_session[s]
            out == Served(s, query)
        IN  /\ (Loaded /\ _detect_service_mode(Strip(query)) = "dine_in") =>
                   /\ out.context = [mode |-> "dine_in", stage |-> "await_slot",
                                     slot |-> context.slot, address |-> NoAddress]
                   /\ out.resp.kind = "mode_selected"
                   /\ out.bill = Session(s).bill
            /\ (Loaded /\ _detect_service_mode(Strip(query)) = "delivery") =>
                   /\ out.context = [mode |-> "delivery", stage |-> "ordering",
                                     slot |-> "", address |-> context.address]
                   /\ out.resp.kind = "mode_selected"
                   /\ out.bill = Session(s).bill

\* dine-in was selected again after a slot was given: the slot is kept in stage
\* await_slot, and a delivery query served now clears it
C19_Witness ==
    \E s \in Sessions :
        /\ Loaded
        /\ session_context_by_session[s].stage = "await_slot"
        /\ session_context_by_session[s].slot # ""
        /\ orders_by_session[s] # <<>>
        /\ Served(s, <<"12", "main", "street", "delivery">>).context.slot = ""
        /\ Served(s, <<"cancel", "dine", "in">>).resp.kind = "mode_selected"

(***************************************************************************)
(* C20: in stage await_slot a query without a mode phrase that holds a    *)
(* slot records it and moves the stage to "ordering"; one that holds none *)
(* is answered with kind "slot_required" and leaves the pending order,    *)
(* the context and the latest bill as they were, whatever keywords it     *)
(* carries.                                                               *)
(***************************************************************************)
\* the queries of the customers and some more slots, alone and beside keywords
SlotInputs ==
    Queries \cup { <<"7:30">>, <<"8pm">>, <<"7", "to", "8", "pm">>, <<"cancel", "lunch">>,
                   <<"2", "veg", "salad", "8", "pm">>, <<"menu", "7", "pm">> }

C20_Case(s, query) ==
    /\ Loaded
    /\ session_context_by_session[s].stage = "await_slot"
    /\ Strip(query) # <<>>
    /\ ~HasModePhrase(query)

C20_AwaitSlot ==
    \A s \in Sessions, query \in SlotInputs :
        LET S == Session(s)
            out == Served(s, query)
        IN  C20_Case(s, query) =>
                /\ HasSlot(query) =>
                       /\ out.context = [S.context EXCEPT !.slot = _extract_slot(Strip(query)),
                                                          !.stage = "ordering"]
                       /\ out.context.slot # ""
                       /\ out.resp.kind = "slot_confirmed"
                       /\ out.order = S.order /\ out.bill = S.bill
                /\ ~HasSlot(query) =>
                       /\ out.resp.kind = "slot_required"
                       /\ Unchanged(out, S)
                /\ query = <<"8", "pm">> => out.context.slot = "8 PM"
                /\ query = <<"confirm", "dinner">> => out.context.slot = "Dinner"
                /\ query = <<"7", "to", "8", "pm">> => out.context.slot = "7 - 8 PM"
                /\ query = <<"2", "veg", "salad", "8", "pm">> => out.context.slot = "8 PM"
                /\ query \in {<<"cancel">>, <<"confirm">>, <<"menu">>, <<"2", "veg", "salad">>,
                              <<"12", "main", "street">>} => ~HasSlot(query)

\* an order is pending and a slot is held in stage await_slot
C20_Witness ==
    \E s \in Sessions :
        /\ C20_Case(s, <<"cancel">>)
        /\ orders_by_session[s] # <<>>
        /\ session_context_by_session[s].slot = "8 PM"
        /\ Served(s, <<"cancel">>).resp.kind = "slot_required"
        /\ Served(s, <<"dinner">>).context.slot = "Dinner"

(***************************************************************************)
(* C21: in stage "await_address", a query with no cancel keyword and no   *)
(* mode phrase that passes the address heuristic stores a bill with mode  *)
(* "delivery" and the trimmed query as its address and clears the pending *)
(* order; one that fails the heuristic stores no bill, is answered with   *)
(* kind "address_required" and leaves the session as it was.              *)
(***************************************************************************)
C21_Case(s, query) ==
    /\ Loaded
    /\ session_context_by_session[s].stage = "await_address"
    /\ ~HasKeyword(query, CANCEL_KEYWORDS)
    /\ ~HasModePhrase(query)

AddressBilled(s, query) ==
    /\ Served(s, query).resp.kind = "bill"
    /\ Served(s, query).bill # NoBill
    /\ Served(s, query).bill.bill_id = FirstBillId
    /\ Served(s, query).bill.mode = "delivery"
    /\ Served(s, query).bill.address = Join(Strip(query))
    /\ Served(s, query).order = <<>>

AddressAskedAgain(s, query) ==
    /\ Served(s, query).resp.kind = "address_required"
    /\ Unchanged(Served(s, query), Session(s))

C21_AddressStep ==
    \A s \in Sessions, query \in Queries :
        C21_Case(s, query) =>
            IF _looks_like_address(Strip(query))
            THEN AddressBilled(s, query)
            ELSE AddressAskedAgain(s, query)

(***************************************************************************)
(* C22: an item query is accepted when the mode is selected and, for      *)
(* dine-in, the slot is set, no earlier rule answers it and it carries no *)
(* cancel or confirm keyword.  If it has the word "add" and an order is   *)
(* pending, the new order has the items of the old order and the parsed   *)
(* ones, each parsed item with its old quantity plus the parsed one and   *)
(* every other item as it was; otherwise the new order is the parsed set. *)
(***************************************************************************)
\* queries that order, with and without "add"
OrderingQueries ==
    Queries \cup { <<"add", "2", "veg", "salad">>, <<"add", "salad", "and", "curry">>,
                   <<"1", "chicken", "curry">> }

Accepted(s, query) ==
    /\ Loaded
    /\ ParsedNow(query) # <<>>
    /\ session_context_by_session[s].mode # ""
    /\ session_context_by_session[s].mode = "dine_in" => session_context_by_session[s].slot # ""
    /\ ~AnsweredEarly(Strip(query), Session(s))
    /\ ~HasKeyword(Strip(query), CANCEL_KEYWORDS \cup CONFIRM_KEYWORDS)

Keys(order) == {order[i].key : i \in 1..Len(order)}

Added(old, parsed, new) ==
    /\ Keys(new) = Keys(old) \cup Keys(parsed)
    /\ Len(new) = Cardinality(Keys(new))
    /\ \A name \in Keys(new) : Get(new, name, 0) = Get(old, name, 0) + Get(parsed, name, 0)

C22_AddOrReplace ==
    \A s \in Sessions, query \in OrderingQueries :
        Accepted(s, query) =>
            IF "add" \in Tokenize(Strip(query)) /\ orders_by_session[s] # <<>>
            THEN Added(orders_by_session[s], ParsedNow(query), Served(s, query).order)
            ELSE Served(s, query).order = ParsedNow(query)

\* "add curry" on {Veg Salad: 2, Chicken Curry: 1} gives {Veg Salad: 2, Chicken Curry: 2},
\* and "2 veg salad" on an order with curry leaves the salad alone
C22_Witness ==
    \E s \in Sessions :
        /\ Accepted(s, <<"add", "curry">>)
        /\ Get(orders_by_session[s], "Veg Salad", 0) = 2
        /\ Get(orders_by_session[s], "Chicken Curry", 0) = 1
        /\ Get(Served(s, <<"add", "curry">>).order, "Veg Salad", 0) = 2
        /\ Get(Served(s, <<"add", "curry">>).order, "Chicken Curry", 0) = 2
        /\ Accepted(s, <<"2", "veg", "salad">>)
        /\ Keys(Served(s, <<"2", "veg", "salad">>).order) = {"Veg Salad"}

(***************************************************************************)
(* C23: when two requests of one session that would each finalize the     *)
(* pending order (served alone on the session as they found it, each is   *)
(* answered with a bill) run at the same time, at most one of them is     *)
(* answered with a bill, and neither raises.                              *)
(***************************************************************************)
Finalizing(t) ==
    /\ threads[t].base.order # <<>>
    /\ ask_question(threads[t].query, threads[t].base, restaurant_text, data_file,
                    threads[t].bill_id, "no_client").resp.kind = "bill"

C23_BillOnce ==
    (BothDone /\ Finalizing("t1") /\ Finalizing("t2")) =>
        /\ ~(threads["t1"].resp.kind = "bill" /\ threads["t2"].resp.kind = "bill")
        /\ ~Raised(threads["t1"].resp)
        /\ ~Raised(threads["t2"].resp)

(***************************************************************************)
(* C24: with mode "dine_in" and stage "ordering", a query that holds a    *)
(* slot expression is answered with kind "slot_confirmed", the recorded   *)
(* slot becomes the extracted one, and the pending order, the mode, the   *)
(* stage, the address and the latest bill stay as they were, whatever     *)
(* else the query holds (cancel, confirm, items).  As claimed this holds  *)
(* for every such query (C24_AsClaimed).  In the code the mode phrase is  *)
(* looked for first (lines 610-633), so it holds for the queries with no  *)
(* mode phrase (C24_SlotUpdate).                                          *)
(***************************************************************************)
\* queries with a slot expression next to a mode phrase, a keyword or an item
SlotUpdateQueries ==
    Queries \cup { <<"dine", "in", "8", "pm">>, <<"delivery", "dinner">>,
                   <<"2", "veg", "salad", "dinner">>, <<"7", "pm">> }

C24_Case(s, query) ==
    /\ Loaded
    /\ session_context_by_session[s].mode = "dine_in"
    /\ session_context_by_session[s].stage = "ordering"
    /\ HasSlot(query)

SlotReplaced(s, query) ==
    /\ Served(s, query).resp.kind = "slot_confirmed"
    /\ Served(s, query).context =
           [session_context_by_session[s] EXCEPT !.slot = _extract_slot(Strip(query))]
    /\ Served(s, query).order = orders_by_session[s]
    /\ Served(s, query).bill = latest_bill_by_session[s]

C24_AsClaimed ==
    \A s \in Sessions, query \in SlotUpdateQueries :
        C24_Case(s, query) => SlotReplaced(s, query)

C24_SlotUpdate ==
    \A s \in Sessions, query \in SlotUpdateQueries :
        (C24_Case(s, query) /\ ~HasModePhrase(query)) => SlotReplaced(s, query)

\* "cancel dinner" with slot "8 PM" and an order pending: the slot becomes "Dinner", the order stays
C24_Witness ==
    \E s \in Sessions :
        /\ C24_Case(s, <<"cancel", "dinner">>)
        /\ session_context_by_session[s].slot = "8 PM"
        /\ orders_by_session[s] # <<>>
        /\ Served(s, <<"cancel", "dinner">>).context.slot = "Dinner"
        /\ Served(s, <<"cancel", "dinner">>).order = orders_by_session[s]
        /\ C24_Case(s, <<"2", "veg", "salad", "dinner">>)
        /\ Served(s, <<"2", "veg", "salad", "dinner">>).order = orders_by_session[s]

(***************************************************************************)
(* C25: requests served one after the other: a session with a pending     *)
(* order has a mode selected and, in mode "dine_in", a slot recorded; and *)
(* while the mode is unset, or dine-in has no slot, a query that orders   *)
(* items leaves the pending order as it is.                               *)
(***************************************************************************)
ModeAndSlotSet(context) ==
    /\ context.mode # ""
    /\ context.mode = "dine_in" => context.slot # ""

C25_OrderNeedsMode ==
    \A s \in Sessions :
        /\ orders_by_session[s] # <<>> => ModeAndSlotSet(session_context_by_session[s])
        /\ \A query \in OrderingQueries :
               (Loaded /\ ParsedNow(query) # <<>>
                       /\ ~ModeAndSlotSet(session_context_by_session[s])) =>
                   Served(s, query).order = orders_by_session[s]

\* dine-in selected again over a pending order: the stage asks for the slot, the slot is kept
C25_Witness ==
    \E s \in Sessions :
        /\ orders_by_session[s] # <<>>
        /\ session_context_by_session[s].mode = "dine_in"
        /\ session_context_by_session[s].stage = "await_slot"
        /\ session_context_by_session[s].slot = "8 PM"

(***************************************************************************)
(* C26: requests served one after the other: a session in stage           *)
(* "await_address" has a pending order, and no request is answered        *)
(* "Address saved. You can continue ordering."                            *)
(***************************************************************************)
C26_AddressNeedsOrder ==
    \A s \in Sessions :
        /\ session_context_by_session[s].stage = "await_address" =>
               orders_by_session[s] # <<>>
        /\ \A query \in Queries :
               Served(s, query).resp.answer # "Address saved. You can continue ordering."

\* an address is awaited and the query that gives it is billed
C26_Witness ==
    \E s \in Sessions :
        /\ session_context_by_session[s].stage = "await_address"
        /\ orders_by_session[s] # <<>>
        /\ _looks_like_address(<<"12", "main", "street">>)
        /\ Served(s, <<"12", "main", "street">>).resp.kind = "bill"

(***************************************************************************)
(* C27: requests served one after the other: between requests the address *)
(* of the service context is empty, and outside stage "await_address" no  *)
(* request of a session in mode "delivery" is answered with a bill.       *)
(***************************************************************************)
C27_AddressTransient ==
    \A s \in Sessions :
        /\ session_context_by_session[s].address = NoAddress
        /\ \A query \in Queries :
               (session_context_by_session[s].mode = "delivery"
                    /\ session_context_by_session[s].stage # "await_address") =>
                   Served(s, query).resp.kind # "bill"

(***************************************************************************)
(* C28: requests served one after the other: a stored bill has at least   *)
(* one item row and mode "dine_in" or "delivery"; a dine-in bill has a    *)
(* slot and no address, a delivery bill an address with at least one      *)
(* address line and no slot.                                              *)
(***************************************************************************)
WellFormedBill(bill) ==
    /\ Len(bill.items) >= 1
    /\ bill.mode \in {"dine_in", "delivery"}
    /\ bill.mode = "dine_in" =>
           /\ bill.slot # ""
           /\ bill.address = ""
           /\ bill.address_lines = <<>>
    /\ bill.mode = "delivery" =>
           /\ bill.address # ""
           /\ bill.address_lines # <<>>
           /\ bill.slot = ""

C28_BillShape ==
    \A s \in Sessions :
        latest_bill_by_session[s] # NoBill => WellFormedBill(latest_bill_by_session[s])

\* a delivery bill whose address splits into two lines at the comma
C28_Witness ==
    \E s \in Sessions :
        /\ latest_bill_by_session[s] # NoBill
        /\ latest_bill_by_session[s].mode = "delivery"
        /\ Len(latest_bill_by_session[s].address_lines) = 2
        /\ Len(latest_bill_by_session[s].items) = 2

=============================================================================
